---- MODULE Spec2Model ----
(***************************************************************************)
(* Model of the rule-based natural-language -> MongoDB query builder of    *)
(* src/app/nl_to_mongo.py.  Texts and column names are strings; the        *)
(* regular expressions of the source are computed character by character.  *)
(***************************************************************************)
EXTENDS Integers, Sequences, FiniteSets, TLC

VARIABLES nl_text, columns, date_override, cost_override, now, pc, filt, q

vars == <<nl_text, columns, date_override, cost_override, now, pc, filt, q>>

\* Python's None (for a field name, an override, a detected value).
None == "<None>"

-----------------------------------------------------------------------------
(* Characters and strings                                                  *)

Digits == "0123456789"
LowerLetters == "abcdefghijklmnopqrstuvwxyz"
UpperLetters == "ABCDEFGHIJKLMNOPQRSTUVWXYZ"

\* The i-th character of s, "" when i is outside s.
At(s, i) == IF i >= 1 /\ i <= Len(s) THEN SubSeq(s, i, i) ELSE ""

CharSet(s) == {SubSeq(s, i, i) : i \in 1..Len(s)}

DigitSet == CharSet(Digits)
LowerSet == CharSet(LowerLetters)
UpperSet == CharSet(UpperLetters)
AlphaSet == LowerSet \cup UpperSet

\* \s of the re module (the ASCII white space a string of the model can hold).
Whitespace == {" ", "\t", "\n", "\r", "\f"}

IsDigit(c) == c \in DigitSet
IsSpace(c) == c \in Whitespace
\* \w of the re module.
IsWordChar(c) == c \in AlphaSet \cup DigitSet \cup {"_"}

LowerChar(c) ==
    IF c \in UpperSet
    THEN LET k == CHOOSE i \in 1..26 : SubSeq(UpperLetters, i, i) = c
         IN SubSeq(LowerLetters, k, k)
    ELSE c

RECURSIVE LowerFrom(_, _)
LowerFrom(s, i) ==
    IF i > Len(s) THEN "" ELSE LowerChar(SubSeq(s, i, i)) \o LowerFrom(s, i + 1)

\* str.lower()
Lower(s) == LowerFrom(s, 1)

\* str.strip()
Strip(s) ==
    LET keep == {i \in 1..Len(s) : ~IsSpace(SubSeq(s, i, i))}
    IN IF keep = {} THEN ""
       ELSE LET lo == CHOOSE i \in keep : \A j \in keep : i <= j
                hi == CHOOSE i \in keep : \A j \in keep : i >= j
            IN SubSeq(s, lo, hi)

\* The literal lit stands in s at position i.
LitAt(s, i, lit) ==
    /\ i >= 1
    /\ i + Len(lit) - 1 <= Len(s)
    /\ SubSeq(s, i, i + Len(lit) - 1) = lit

\* Python's "sub in s".
Contains(s, sub) == \E i \in 1..(Len(s) - Len(sub) + 1) : LitAt(s, i, sub)

\* \b of the re module at the boundary before position i of s.
WordBoundary(s, i) == IsWordChar(At(s, i - 1)) # IsWordChar(At(s, i))

\* \bword\b matches somewhere in s.
HasWord(s, word) ==
    \E i \in 1..(Len(s) - Len(word) + 1) :
        /\ LitAt(s, i, word)
        /\ WordBoundary(s, i)
        /\ WordBoundary(s, i + Len(word))

\* The end (exclusive) of the longest run of characters of class cls from i.
RECURSIVE RunEnd(_, _, _)
RunEnd(s, i, cls) ==
    IF i <= Len(s) /\ SubSeq(s, i, i) \in cls THEN RunEnd(s, i + 1, cls) ELSE i

DigitValue(c) == CHOOSE d \in 0..9 : SubSeq(Digits, d + 1, d + 1) = c

\* int() of a string of decimal digits.
RECURSIVE ParseInt(_)
ParseInt(s) ==
    IF Len(s) = 0 THEN 0
    ELSE 10 * ParseInt(SubSeq(s, 1, Len(s) - 1)) + DigitValue(SubSeq(s, Len(s), Len(s)))

Min(a, b) == IF a <= b THEN a ELSE b

-----------------------------------------------------------------------------
(* Field resolution                                                        *)

COST_KEYWORDS ==
    <<"discount", "discounted cost", "published cost", "published",
      "marked up", "marked", "cost", "amount", "charge", "price", "freight">>
DATE_FIELD_HINTS == <<"ship date", "ship", "created", "date", "delivered", "etd">>
STATUS_FIELD_HINTS == <<"status", "delivery status", "shipment type">>

\* A faulty variant of find_field: column-major scan (the first column holding any keyword).
find_field_column_major(cols, keywords) ==
    LET hits == {i \in 1..Len(cols) :
                    \E k \in 1..Len(keywords) : Contains(Lower(cols[i]), Lower(keywords[k]))}
    IN IF hits = {} THEN None
       ELSE cols[CHOOSE i \in hits : \A j \in hits : i <= j]

\* find_field, the loops from keyword k and column i on: keywords in list order,
\* for each keyword the columns in schema order.
RECURSIVE find_field_from(_, _, _, _)
find_field_from(cols, keywords, k, i) ==
    IF k > Len(keywords) THEN None
    ELSE IF i > Len(cols) THEN find_field_from(cols, keywords, k + 1, 1)
    ELSE IF Contains(Lower(cols[i]), Lower(keywords[k])) THEN cols[i]
    ELSE find_field_from(cols, keywords, k, i + 1)

find_field(cols, keywords) == find_field_from(cols, keywords, 1, 1)

\* Python truthiness of a field name: None and "" are false.
Truthy(f) == f # None /\ f # ""

RECURSIVE detect_cost_from(_, _)
detect_cost_from(cols, k) ==
    IF k > Len(COST_KEYWORDS)
    THEN \* fallback: any column name containing key substrings
         LET hits == {i \in 1..Len(cols) :
                         \E w \in {"cost", "amount", "charge", "price"} :
                             Contains(Lower(cols[i]), w)}
         IN IF hits = {} THEN None
            ELSE cols[CHOOSE i \in hits : \A j \in hits : i <= j]
    ELSE LET f == find_field(cols, <<COST_KEYWORDS[k]>>)
         IN IF Truthy(f) THEN f ELSE detect_cost_from(cols, k + 1)

detect_cost_field(cols) == detect_cost_from(cols, 1)

\* A faulty variant of detect_date_field: the generic hint "date" tried before "ship date".
detect_date_field_date_first(cols) ==
    find_field(cols, <<"date", "ship date", "ship", "created", "delivered", "etd">>)

detect_date_field(cols) == find_field(cols, DATE_FIELD_HINTS)

detect_status_field(cols) == find_field(cols, STATUS_FIELD_HINTS)

\* Python's "a or b" on field names.
Or(a, b) == IF Truthy(a) THEN a ELSE b

-----------------------------------------------------------------------------
(* Dates (datetime, timedelta, dateutil.parser.parse)                      *)

\* The zone of now_with_tz(); a datetime parsed from the text carries none.
TZ == "Asia/Kolkata"

DateTime(y, mo, d, h, mi, s, us, tz) ==
    [year |-> y, month |-> mo, day |-> d, hour |-> h, minute |-> mi,
     second |-> s, microsecond |-> us, tzinfo |-> tz]

IsLeap(y) == y % 4 = 0 /\ (y % 100 # 0 \/ y % 400 = 0)

DaysInMonth(y, m) ==
    IF m = 2 THEN (IF IsLeap(y) THEN 29 ELSE 28)
    ELSE IF m \in {4, 6, 9, 11} THEN 30 ELSE 31

DaysBeforeYear(y) ==
    (y - 1) * 365 + ((y - 1) \div 4) - ((y - 1) \div 100) + ((y - 1) \div 400)

RECURSIVE DaysBeforeMonth(_, _)
DaysBeforeMonth(y, m) ==
    IF m <= 1 THEN 0 ELSE DaysBeforeMonth(y, m - 1) + DaysInMonth(y, m - 1)

\* date.toordinal(): 0001-01-01 is day 1.
ToOrdinal(y, m, d) == DaysBeforeYear(y) + DaysBeforeMonth(y, m) + d

\* date.max.toordinal()
MaxOrdinal == 3652059

\* date.fromordinal(n), as <<year, month, day>>, for 1 <= n <= MaxOrdinal.
FromOrdinal(n) ==
    LET n0 == n - 1
        n400 == n0 \div 146097
        r400 == n0 % 146097
        n100 == r400 \div 36524
        r100 == r400 % 36524
        n4 == r100 \div 1461
        r4 == r100 % 1461
        n1 == r4 \div 365
        r1 == r4 % 365
        y == n400 * 400 + n100 * 100 + n4 * 4 + n1 + 1
    IN IF n1 = 4 \/ n100 = 4 THEN <<y - 1, 12, 31>>
       ELSE LET m == CHOOSE k \in 1..12 :
                         /\ DaysBeforeMonth(y, k) <= r1
                         /\ r1 < DaysBeforeMonth(y, k) + DaysInMonth(y, k)
            IN <<y, m, r1 - DaysBeforeMonth(y, m) + 1>>

\* datetime.weekday(): Monday is 0.
Weekday(dt) == (ToOrdinal(dt.year, dt.month, dt.day) + 6) % 7

\* dt + timedelta(days = n) is an OverflowError outside date.min .. date.max.
PlusDaysOverflows(dt, n) ==
    LET o == ToOrdinal(dt.year, dt.month, dt.day) + n
    IN o < 1 \/ o > MaxOrdinal

\* dt + timedelta(days = n): the date moves, the wall-clock time stays.
PlusDays(dt, n) ==
    LET ymd == FromOrdinal(ToOrdinal(dt.year, dt.month, dt.day) + n)
    IN [dt EXCEPT !.year = ymd[1], !.month = ymd[2], !.day = ymd[3]]

\* dt.replace(hour=0, minute=0, second=0, microsecond=0)
Midnight(dt) == [dt EXCEPT !.hour = 0, !.minute = 0, !.second = 0, !.microsecond = 0]

\* s[i..i+9] has the shape \d{4}-\d{2}-\d{2}.
DateShapeAt(s, i) ==
    /\ i + 9 <= Len(s)
    /\ \A k \in {0, 1, 2, 3, 5, 6, 8, 9} : IsDigit(At(s, i + k))
    /\ At(s, i + 4) = "-"
    /\ At(s, i + 7) = "-"

\* dateutil's parse of a YYYY-MM-DD token raises unless it names a real day.
DateParses(t) ==
    LET y == ParseInt(SubSeq(t, 1, 4))
        m == ParseInt(SubSeq(t, 6, 7))
        d == ParseInt(SubSeq(t, 9, 10))
    IN y >= 1 /\ m \in 1..12 /\ d >= 1 /\ d <= DaysInMonth(y, m)

\* dateutil's parse of a YYYY-MM-DD token: midnight of that day, no zone.
ParseDate(t) ==
    DateTime(ParseInt(SubSeq(t, 1, 4)), ParseInt(SubSeq(t, 6, 7)),
             ParseInt(SubSeq(t, 9, 10)), 0, 0, 0, 0, None)

-----------------------------------------------------------------------------
(* Filter values                                                           *)

NoDate == DateTime(0, 0, 0, 0, 0, 0, 0, None)

\* A float, held exactly as mant * 10^(-exp) with no trailing fraction zero.
NumV(mant, exp) == [k |-> "float", n |-> <<mant, exp>>, d |-> NoDate, s |-> "", l |-> <<>>]
DtV(dt) == [k |-> "datetime", n |-> <<0, 0>>, d |-> dt, s |-> "", l |-> <<>>]
StrV(str) == [k |-> "str", n |-> <<0, 0>>, d |-> NoDate, s |-> str, l |-> <<>>]
ListV(lst) == [k |-> "list", n |-> <<0, 0>>, d |-> NoDate, s |-> "", l |-> lst]

\* The empty dict.
EmptyDict == <<>>

\* dict.update / item assignment: the entries of g replace those of f.
Update(f, g) == g @@ f

-----------------------------------------------------------------------------
(* Temporal phrases                                                        *)

MONTH_KEYWORDS == <<"this month", "current month">>
YEAR_KEYWORDS == <<"this year", "current year">>
WEEK_KEYWORDS == <<"this week", "current week">>

AnyKeyword(low, kws) == \E k \in 1..Len(kws) : Contains(low, kws[k])

\* between\s+(\d{4}-\d{2}-\d{2})\s+and\s+(\d{4}-\d{2}-\d{2}) at position i of s
\* (low is s in lower case): the positions of the two dates, or <<>>.
BetweenAt(s, low, i) ==
    LET p1 == i + 7
        p2 == RunEnd(s, p1, Whitespace)
        p3 == p2 + 10
        p4 == RunEnd(s, p3, Whitespace)
        p5 == p4 + 3
        p6 == RunEnd(s, p5, Whitespace)
    IN IF /\ LitAt(low, i, "between")
          /\ p2 > p1
          /\ DateShapeAt(s, p2)
          /\ p4 > p3
          /\ LitAt(low, p4, "and")
          /\ p6 > p5
          /\ DateShapeAt(s, p6)
       THEN <<p2, p6>>
       ELSE <<>>

\* re.search of the between pattern: the groups of the leftmost match, or <<>>.
BetweenSearch(s) ==
    LET low == Lower(s)
        hits == {i \in 1..Len(s) : BetweenAt(s, low, i) # <<>>}
    IN IF hits = {} THEN <<>>
       ELSE LET i == CHOOSE a \in hits : \A b \in hits : a <= b
                p == BetweenAt(s, low, i)
            IN <<SubSeq(s, p[1], p[1] + 9), SubSeq(s, p[2], p[2] + 9)>>

\* last\s+(\d+)\s+days? at position i of s: the digits captured, or None.
LastNDaysAt(s, low, i) ==
    LET p1 == i + 4
        p2 == RunEnd(s, p1, Whitespace)
        p3 == RunEnd(s, p2, DigitSet)
        p4 == RunEnd(s, p3, Whitespace)
    IN IF /\ LitAt(low, i, "last")
          /\ p2 > p1
          /\ p3 > p2
          /\ p4 > p3
          /\ LitAt(low, p4, "day")
       THEN SubSeq(s, p2, p3 - 1)
       ELSE None

\* LAST_N_DAYS_RE.search: group 1 of the leftmost match, or None.
LastNDaysSearch(s) ==
    LET low == Lower(s)
        hits == {i \in 1..Len(s) : LastNDaysAt(s, low, i) # None}
    IN IF hits = {} THEN None
       ELSE LastNDaysAt(s, low, CHOOSE a \in hits : \A b \in hits : a <= b)

\* LAST_7_DAYS_RE.search(nl) or re.search(r"last\s+7\s+day", nl)
Last7DaysSearch(s) ==
    LET low == Lower(s)
    IN \E i \in 1..Len(s) :
          LET p1 == i + 4
              p2 == RunEnd(s, p1, Whitespace)
              p3 == p2 + 1
              p4 == RunEnd(s, p3, Whitespace)
          IN /\ LitAt(low, i, "last")
             /\ p2 > p1
             /\ At(s, p2) = "7"
             /\ p4 > p3
             /\ LitAt(low, p4, "day")

\* The result of a call: a value, or an exception raised to the caller.
Returned(v) == [raised |-> FALSE, value |-> v]
Raised == [raised |-> TRUE, value |-> EmptyDict]

Range(field, lo, hikey, hi) == field :> (("$gte" :> DtV(lo)) @@ (hikey :> DtV(hi)))

\* The end of the month that starts at start.
month_end(start) ==
    IF start.month = 12
    THEN [start EXCEPT !.year = start.year + 1, !.month = 1]
    ELSE [start EXCEPT !.month = start.month + 1]

\* A faulty variant of last_n_days_start: the start keeps the time of day (as in
\* last_n_days_range).
last_n_days_start_untruncated(t, n) == PlusDays(t, -n)

\* (now - timedelta(days=n)).replace(hour=0, minute=0, second=0, microsecond=0)
last_n_days_start(t, n) == Midnight(PlusDays(t, -n))

\* The rules of parse_date_specifics after the explicit range.
relative_date_specifics(nl, date_field, t) ==
    LET nl_low == Lower(nl)
        n_txt == LastNDaysSearch(nl)
    IN IF AnyKeyword(nl_low, MONTH_KEYWORDS)
       THEN LET start == [Midnight(t) EXCEPT !.day = 1]
                end == month_end(start)
            IN IF start.month = 12 /\ start.year + 1 > 9999
               THEN Raised
               ELSE Returned(Range(date_field, start, "$lt", end))
       ELSE IF AnyKeyword(nl_low, YEAR_KEYWORDS)
       THEN LET start == [Midnight(t) EXCEPT !.month = 1, !.day = 1]
                end == [start EXCEPT !.year = start.year + 1]
            IN IF start.year + 1 > 9999
               THEN Raised
               ELSE Returned(Range(date_field, start, "$lt", end))
       ELSE IF AnyKeyword(nl_low, WEEK_KEYWORDS)
       THEN IF PlusDaysOverflows(t, -Weekday(t)) \/ PlusDaysOverflows(t, 7 - Weekday(t))
            THEN Raised
            ELSE LET monday == Midnight(PlusDays(t, -Weekday(t)))
                     next_monday == PlusDays(monday, 7)
                 IN Returned(Range(date_field, monday, "$lt", next_monday))
       ELSE IF n_txt # None
       THEN LET n == ParseInt(n_txt)
            IN IF PlusDaysOverflows(t, -n)
               THEN Raised
               ELSE Returned(Range(date_field, last_n_days_start(t, n), "$lt", t))
       ELSE IF Last7DaysSearch(nl)
       THEN Returned(Range(date_field, last_n_days_start(t, 7), "$lt", t))
       ELSE Returned(EmptyDict)

\* A faulty variant of parse_date_specifics: a between range that fails to parse ends the
\* function with no filter.
parse_date_specifics_no_fallback(nl, cols, date_ov, t) ==
    LET date_field == Or(date_ov, detect_date_field(cols))
        m == BetweenSearch(nl)
    IN IF ~Truthy(date_field) THEN Returned(EmptyDict)
       ELSE IF m # <<>>
       THEN IF DateParses(m[1]) /\ DateParses(m[2])
            THEN Returned(Range(date_field, ParseDate(m[1]), "$lte", ParseDate(m[2])))
            ELSE Returned(EmptyDict)
       ELSE relative_date_specifics(nl, date_field, t)

\* parse_date_specifics, with now_with_tz() = t.
parse_date_specifics(nl, cols, date_ov, t) ==
    LET date_field == Or(date_ov, detect_date_field(cols))
        m == BetweenSearch(nl)
    IN IF ~Truthy(date_field) THEN Returned(EmptyDict)
       ELSE IF m # <<>> /\ DateParses(m[1]) /\ DateParses(m[2])
       THEN Returned(Range(date_field, ParseDate(m[1]), "$lte", ParseDate(m[2])))
       ELSE relative_date_specifics(nl, date_field, t)

-----------------------------------------------------------------------------
(* Location, status and numeric-comparison predicates                      *)

\* [A-Za-z0-9\-\s,]
LocationClass == AlphaSet \cup DigitSet \cup Whitespace \cup {"-", ","}

\* \b<word>\s+([A-Za-z0-9\-\s,]+?)(?:\s+<stop>\b|$) at position i of s (low is s
\* in lower case): group 1, or None.  \s+ is greedy and the group lazy: the
\* longest white space that leaves a match, then the shortest group.
LocationAt(s, low, i, word, stop) ==
    LET e0 == i + Len(word)
        wsEnd == RunEnd(s, e0, Whitespace)
        clsEnd == RunEnd(s, e0, LocationClass)
        TermOK(t) ==
            \/ t = Len(s) + 1
            \/ LET t2 == RunEnd(s, t, Whitespace)
               IN t2 > t /\ LitAt(low, t2, stop) /\ WordBoundary(s, t2 + Len(stop))
        Ends(c) == {t \in (c + 1)..clsEnd : TermOK(t)}
        starts == {c \in (e0 + 1)..wsEnd : Ends(c) # {}}
    IN IF LitAt(low, i, word) /\ WordBoundary(s, i) /\ starts # {}
       THEN LET c == CHOOSE a \in starts : \A b \in starts : a >= b
                t == CHOOSE a \in Ends(c) : \A b \in Ends(c) : a <= b
            IN SubSeq(s, c, t - 1)
       ELSE None

\* re.search of the location pattern: group 1 of the leftmost match, or None.
LocationSearch(s, word, stop) ==
    LET low == Lower(s)
        hits == {i \in 1..Len(s) : LocationAt(s, low, i, word, stop) # None}
    IN IF hits = {} THEN None
       ELSE LocationAt(s, low, CHOOSE a \in hits : \A b \in hits : a <= b, word, stop)

RegexPredicate(text) == ("$regex" :> StrV(text)) @@ ("$options" :> StrV("i"))

\* build_query, "simple origin/destination extraction".
location_predicates(nl, cols, f) ==
    LET m_from == LocationSearch(nl, "from", "to")
        fld_from == find_field(cols, <<"origin", "from", "location">>)
        f1 == IF m_from # None /\ Truthy(fld_from)
              THEN Update(f, fld_from :> RegexPredicate(Strip(m_from)))
              ELSE f
        m_to == LocationSearch(nl, "to", "with")
        fld_to == find_field(cols, <<"destination", "to", "to company", "to id">>)
    IN IF m_to # None /\ Truthy(fld_to)
       THEN Update(f1, fld_to :> RegexPredicate(Strip(m_to)))
       ELSE f1

STATUS_WORDS ==
    <<"delivered", "pending", "in transit", "cancelled", "returned", "booked", "shipped">>

\* The status words of the text, in the order of the vocabulary.
StatusMentions(nl) ==
    LET low == Lower(nl)
    IN SelectSeq(STATUS_WORDS, LAMBDA w : HasWord(low, w))

\* build_query, "status mentions".
status_predicate(nl, cols, f) ==
    LET statuses == StatusMentions(nl)
        status_field == detect_status_field(cols)
    IN IF statuses # <<>> /\ Truthy(status_field)
       THEN Update(f, status_field :> ("$in" :> ListV(statuses)))
       ELSE f

\* [A-Za-z _#\-]
FieldPhraseClass == AlphaSet \cup {" ", "_", "#", "-"}
\* [0-9,\.]
NumberClass == DigitSet \cup {",", "."}

\* The longest field phrase of the comparison pattern.
MaxFieldPhrase == 40

\* (>=|<=|>|<|=) at position p of s, or "".
OperatorAt(s, p) ==
    IF LitAt(s, p, ">=") THEN ">="
    ELSE IF LitAt(s, p, "<=") THEN "<="
    ELSE IF At(s, p) \in {">", "<", "="} THEN At(s, p)
    ELSE ""

\* ([A-Za-z _#\-]{2,40})\s*(>=|<=|>|<|=)\s*([0-9,\.]+) at position i of s:
\* <<field phrase, operator, number, end of the match>>, or <<>>.
ComparisonAt(s, i) ==
    LET runEnd == RunEnd(s, i, FieldPhraseClass)
        ftEnd == Min(runEnd, i + MaxFieldPhrase)
        opAt == RunEnd(s, ftEnd, Whitespace)
        op == OperatorAt(s, opAt)
        numAt == RunEnd(s, opAt + Len(op), Whitespace)
        numEnd == RunEnd(s, numAt, NumberClass)
    IN IF ftEnd - i >= 2 /\ op # "" /\ numEnd > numAt
       THEN <<SubSeq(s, i, ftEnd - 1), op, SubSeq(s, numAt, numEnd - 1), numEnd>>
       ELSE <<>>

\* re.finditer of the comparison pattern from position pos: the groups of the
\* non-overlapping matches, left to right.
RECURSIVE Comparisons(_, _)
Comparisons(s, pos) ==
    LET hits == {i \in pos..Len(s) : ComparisonAt(s, i) # <<>>}
    IN IF hits = {} THEN <<>>
       ELSE LET m == ComparisonAt(s, CHOOSE a \in hits : \A b \in hits : a <= b)
            IN <<[ft |-> m[1], op |-> m[2], num |-> m[3]]>> \o Comparisons(s, m[4])

\* str.replace(ch, "")
RECURSIVE DropChar(_, _)
DropChar(s, ch) ==
    IF Len(s) = 0 THEN ""
    ELSE (IF SubSeq(s, 1, 1) = ch THEN "" ELSE SubSeq(s, 1, 1))
             \o DropChar(SubSeq(s, 2, Len(s)), ch)

\* float(t) of a string of digits and dots is a ValueError unless t holds a
\* digit and at most one dot.
FloatParses(t) ==
    /\ \E i \in 1..Len(t) : IsDigit(At(t, i))
    /\ Cardinality({i \in 1..Len(t) : At(t, i) = "."}) <= 1

RECURSIVE Normalize(_, _)
Normalize(mant, exp) ==
    IF exp > 0 /\ mant % 10 = 0 THEN Normalize(mant \div 10, exp - 1) ELSE NumV(mant, exp)

\* float(t), for a t that parses.
ParseFloat(t) ==
    LET dots == {i \in 1..Len(t) : At(t, i) = "."}
        exp == IF dots = {} THEN 0 ELSE Len(t) - (CHOOSE i \in dots : TRUE)
    IN Normalize(ParseInt(DropChar(t, ".")), exp)

opmap == [x \in {"=", ">", "<", ">=", "<="} |->
             CASE x = "=" -> "$eq" [] x = ">" -> "$gt" [] x = "<" -> "$lt"
               [] x = ">=" -> "$gte" [] x = "<=" -> "$lte"]

\* The column a comparison on field phrase ft goes to, or a false value.
comparison_column(ft, cols, cost_ov) ==
    Or(find_field(cols, <<Strip(ft)>>), Or(cost_ov, detect_cost_field(cols)))

\* A faulty variant of set_comparison: the comparison replaces the column's predicate.
set_comparison_overwrite(f, col, op, val) == Update(f, col :> (opmap[op] :> val))

\* filt.setdefault(col, {}); filt[col][opmap[op]] = val
set_comparison(f, col, op, val) ==
    LET old == IF col \in DOMAIN f THEN f[col] ELSE EmptyDict
    IN Update(f, col :> Update(old, opmap[op] :> val))

\* The loop over the comparisons ms[k..]: the filter, or the ValueError of float().
RECURSIVE numeric_predicates(_, _, _, _, _)
numeric_predicates(ms, k, cols, cost_ov, f) ==
    IF k > Len(ms) THEN Returned(f)
    ELSE LET col == comparison_column(ms[k].ft, cols, cost_ov)
             num == DropChar(ms[k].num, ",")
         IN IF ~Truthy(col) THEN numeric_predicates(ms, k + 1, cols, cost_ov, f)
            ELSE IF ~FloatParses(num) THEN Raised
            ELSE numeric_predicates(ms, k + 1, cols, cost_ov,
                                    set_comparison(f, col, ms[k].op, ParseFloat(num)))

-----------------------------------------------------------------------------
(* Intent detection                                                        *)

\* \bhow many\b|\bcount\b|\bnumber of\b
detect_count(nl) ==
    LET low == Lower(nl)
    IN HasWord(low, "how many") \/ HasWord(low, "count") \/ HasWord(low, "number of")

\* top\s+(\d+) at position i of s: the digits captured, or None.
TopAt(s, low, i) ==
    LET p1 == i + 3
        p2 == RunEnd(s, p1, Whitespace)
        p3 == RunEnd(s, p2, DigitSet)
    IN IF LitAt(low, i, "top") /\ p2 > p1 /\ p3 > p2 THEN SubSeq(s, p2, p3 - 1) ELSE None

\* detect_top_n: <<n>>, or <<>> for None.
detect_top_n(nl) ==
    LET low == Lower(nl)
        hits == {i \in 1..Len(nl) : TopAt(nl, low, i) # None}
    IN IF hits = {} THEN <<>>
       ELSE <<ParseInt(TopAt(nl, low, CHOOSE a \in hits : \A b \in hits : a <= b))>>

\* \b(total|sum|total cost|total amount)\b
detect_sum_request(nl) ==
    LET low == Lower(nl)
    IN \E w \in {"total", "sum", "total cost", "total amount"} : HasWord(low, w)

\* [a-z0-9 _-] under IGNORECASE
GroupPhraseClass == AlphaSet \cup DigitSet \cup {" ", "_", "-"}

\* group(?:ed)? by\s+([a-z0-9 _-]+) at position i of s: group 1, or None.  \s+
\* gives back white space until the group has a character to take.
GroupByAt(s, low, i) ==
    LET g1 == i + 5
        g2 == IF LitAt(low, g1, "ed") THEN g1 + 2 ELSE g1
        b == g2 + 3
        wsEnd == RunEnd(s, b, Whitespace)
        starts == {c \in (b + 1)..wsEnd : RunEnd(s, c, GroupPhraseClass) > c}
    IN IF LitAt(low, i, "group") /\ LitAt(low, g2, " by") /\ starts # {}
       THEN LET c == CHOOSE a \in starts : \A x \in starts : a >= x
            IN SubSeq(s, c, RunEnd(s, c, GroupPhraseClass) - 1)
       ELSE None

\* detect_group_by: the grouping phrase, or None.
detect_group_by(nl) ==
    LET low == Lower(nl)
        hits == {i \in 1..Len(nl) : GroupByAt(nl, low, i) # None}
    IN IF hits # {}
       THEN Strip(GroupByAt(nl, low, CHOOSE a \in hits : \A b \in hits : a <= b))
       ELSE IF Contains(low, "by status") \/ Contains(low, "group by status")
               \/ Contains(low, "grouped by status")
       THEN "status"
       ELSE None

\* The column build_query groups by for the phrase group_by, or a false value.
group_field_of(group_by, cols) ==
    IF Lower(group_by) \in {"status", "delivery status", "shipment status"}
    THEN Or(detect_status_field(cols), find_field(cols, <<group_by>>))
    ELSE find_field(cols, <<group_by>>)

-----------------------------------------------------------------------------
(* Aggregation pipelines                                                   *)

Stage(name, filter, id, input, fields, n) ==
    [stage |-> name, filter |-> filter, id |-> id, input |-> input,
     fields |-> fields, n |-> n]

\* {"$match": filter}
Match(f) == Stage("$match", f, None, None, <<>>, 0)
\* {"$group": {"_id": id, <fields>: $sum/$avg of $convert(input, double, 0, 0)}}
Group(id, input, fields) == Stage("$group", EmptyDict, id, input, fields, 0)
\* {"$addFields": {"__cost_num": $convert(input, double, 0, 0)}}
AddFields(input) == Stage("$addFields", EmptyDict, None, input, <<"__cost_num">>, 0)
\* {"$sort": {field: -1}}
SortDesc(field) == Stage("$sort", EmptyDict, None, None, <<field>>, -1)
\* {"$limit": n}
Limit(n) == Stage("$limit", EmptyDict, None, None, <<>>, n)
\* {"$project": {"__cost_num": 0}}
ProjectOut(field) == Stage("$project", EmptyDict, None, None, <<field>>, 0)

NoAgg == [type |-> None, pipeline |-> <<>>]

\* The limit of a plain listing.
DefaultLimit == 100

Query(f, is_count, agg) ==
    [filter |-> f, limit |-> DefaultLimit, is_count |-> is_count, agg |-> agg]

sum_pipeline(f, cost_field) ==
    <<Match(f), Group(None, "$" \o cost_field, <<"total">>)>>

group_pipeline(f, group_field, cost_field) ==
    <<Match(f),
      Group("$" \o group_field, "$" \o cost_field, <<"count", "total_cost", "avg_cost">>),
      SortDesc("total_cost")>>

\* A faulty variant of top_pipeline: the $limit stage carries the default limit.
top_pipeline_default_limit(f, cost_field, topn) ==
    (IF DOMAIN f # {} THEN <<Match(f)>> ELSE <<>>)
        \o <<AddFields("$" \o cost_field), SortDesc("__cost_num"), Limit(DefaultLimit),
             ProjectOut("__cost_num")>>

\* A faulty variant of top_pipeline: no $match stage at all.
top_pipeline_no_match(f, cost_field, topn) ==
    <<AddFields("$" \o cost_field), SortDesc("__cost_num"), Limit(topn),
      ProjectOut("__cost_num")>>

top_pipeline(f, cost_field, topn) ==
    (IF DOMAIN f # {} THEN <<Match(f)>> ELSE <<>>)
        \o <<AddFields("$" \o cost_field), SortDesc("__cost_num"), Limit(topn),
             ProjectOut("__cost_num")>>

\* A faulty variant of classify: the sum check comes before the count check.
classify_sum_first(nl, cols, cost_ov, f) ==
    LET cost_field == Or(cost_ov, detect_cost_field(cols))
        group_by == detect_group_by(nl)
        group_field == IF Truthy(group_by) THEN group_field_of(group_by, cols) ELSE None
        topn == detect_top_n(nl)
    IN IF detect_sum_request(nl) /\ Truthy(cost_field)
       THEN Query(f, FALSE, [type |-> "sum", pipeline |-> sum_pipeline(f, cost_field)])
       ELSE IF detect_count(nl) THEN Query(f, TRUE, NoAgg)
       ELSE IF Truthy(group_by) /\ Truthy(group_field) /\ Truthy(cost_field)
       THEN Query(f, FALSE, [type |-> "group_cost",
                             pipeline |-> group_pipeline(f, group_field, cost_field)])
       ELSE IF topn # <<>> /\ topn[1] # 0 /\ Truthy(cost_field)
       THEN Query(f, FALSE, [type |-> "top",
                             pipeline |-> top_pipeline(f, cost_field, topn[1])])
       ELSE Query(f, FALSE, NoAgg)

\* A faulty variant of classify: a group-by phrase that does not resolve ends in the
\* plain listing.
classify_no_fallthrough(nl, cols, cost_ov, f) ==
    LET cost_field == Or(cost_ov, detect_cost_field(cols))
        group_by == detect_group_by(nl)
        group_field == IF Truthy(group_by) THEN group_field_of(group_by, cols) ELSE None
        topn == detect_top_n(nl)
    IN IF detect_count(nl) THEN Query(f, TRUE, NoAgg)
       ELSE IF detect_sum_request(nl) /\ Truthy(cost_field)
       THEN Query(f, FALSE, [type |-> "sum", pipeline |-> sum_pipeline(f, cost_field)])
       ELSE IF Truthy(group_by)
       THEN IF Truthy(group_field) /\ Truthy(cost_field)
            THEN Query(f, FALSE, [type |-> "group_cost",
                                  pipeline |-> group_pipeline(f, group_field, cost_field)])
            ELSE Query(f, FALSE, NoAgg)
       ELSE IF topn # <<>> /\ topn[1] # 0 /\ Truthy(cost_field)
       THEN Query(f, FALSE, [type |-> "top",
                             pipeline |-> top_pipeline(f, cost_field, topn[1])])
       ELSE Query(f, FALSE, NoAgg)

\* build_query from "prepare return structure" on: the query for filter f.
classify(nl, cols, cost_ov, f) ==
    LET cost_field == Or(cost_ov, detect_cost_field(cols))
        group_by == detect_group_by(nl)
        group_field == IF Truthy(group_by) THEN group_field_of(group_by, cols) ELSE None
        topn == detect_top_n(nl)
    IN IF detect_count(nl) THEN Query(f, TRUE, NoAgg)
       ELSE IF detect_sum_request(nl) /\ Truthy(cost_field)
       THEN Query(f, FALSE, [type |-> "sum", pipeline |-> sum_pipeline(f, cost_field)])
       ELSE IF Truthy(group_by) /\ Truthy(group_field) /\ Truthy(cost_field)
       THEN Query(f, FALSE, [type |-> "group_cost",
                             pipeline |-> group_pipeline(f, group_field, cost_field)])
       ELSE IF topn # <<>> /\ topn[1] # 0 /\ Truthy(cost_field)
       THEN Query(f, FALSE, [type |-> "top",
                             pipeline |-> top_pipeline(f, cost_field, topn[1])])
       ELSE Query(f, FALSE, NoAgg)

-----------------------------------------------------------------------------
(* build_query as a state machine: one step per part of the function       *)

\* nl = (nl_text or "").strip()
nl == Strip(nl_text)

NoQuery == Query(EmptyDict, FALSE, NoAgg)

\* date filters (use override if provided)
TemporalStep ==
    /\ pc = "start"
    /\ LET r == parse_date_specifics(nl, columns, date_override, now)
       IN IF r.raised
          THEN /\ pc' = "raised"
               /\ filt' = filt
          ELSE /\ pc' = "temporal"
               /\ filt' = Update(filt, r.value)
    /\ UNCHANGED <<nl_text, columns, date_override, cost_override, now, q>>

\* origin/destination extraction, status mentions
PredicateStep ==
    /\ pc = "temporal"
    /\ pc' = "predicates"
    /\ filt' = status_predicate(nl, columns, location_predicates(nl, columns, filt))
    /\ UNCHANGED <<nl_text, columns, date_override, cost_override, now, q>>

\* numeric comparisons
ComparisonStep ==
    /\ pc = "predicates"
    /\ LET r == numeric_predicates(Comparisons(nl, 1), 1, columns, cost_override, filt)
       IN IF r.raised
          THEN /\ pc' = "raised"
               /\ filt' = filt
          ELSE /\ pc' = "compared"
               /\ filt' = r.value
    /\ UNCHANGED <<nl_text, columns, date_override, cost_override, now, q>>

\* prepare return structure, intent detection, return q
IntentStep ==
    /\ pc = "compared"
    /\ pc' = "done"
    /\ q' = classify(nl, columns, cost_override, filt)
    /\ UNCHANGED <<nl_text, columns, date_override, cost_override, now, filt>>

Next == TemporalStep \/ PredicateStep \/ ComparisonStep \/ IntentStep

-----------------------------------------------------------------------------
(* Inputs                                                                  *)

\* The longest text, in phrases.
MaxPhrases == 3

SeqRange(sq) == {sq[i] : i \in 1..Len(sq)}

\* The sequences of at most n different elements of P.
RECURSIVE PhraseSeqs(_, _)
PhraseSeqs(P, n) ==
    IF n = 0 THEN {<<>>}
    ELSE LET shorter == PhraseSeqs(P, n - 1)
         IN shorter \cup
               UNION {{Append(sq, p) : p \in P \ SeqRange(sq)} : sq \in shorter}

\* " ".join(sq)
RECURSIVE Join(_)
Join(sq) ==
    IF Len(sq) = 0 THEN ""
    ELSE IF Len(sq) = 1 THEN sq[1]
    ELSE sq[1] \o " " \o Join(Tail(sq))

Texts(P, n) == {Join(sq) : sq \in PhraseSeqs(P, n)}

InitWith(texts, columnLists, dateOverrides, costOverrides, nows) ==
    /\ nl_text \in texts
    /\ columns \in columnLists
    /\ date_override \in dateOverrides
    /\ cost_override \in costOverrides
    /\ now \in nows
    /\ pc = "start"
    /\ filt = EmptyDict
    /\ q = NoQuery

\* 2024-03-15 10:00 in Asia/Kolkata
Now0 == DateTime(2024, 3, 15, 10, 0, 0, 0, TZ)

IntentPhrases ==
    {"how many", "total", "total for top 3", "grouped by status", "group by region",
     "top 5", "top 0", "cost > 100"}

IntentColumns ==
    {<<>>,
     <<"Ref #", "Ship Date", "Status", "Published Cost">>,
     <<"Status", "Region">>,
     <<"Cost (USD)", "Region">>}

Init ==
    InitWith(Texts(IntentPhrases, MaxPhrases), IntentColumns, {None}, {None, "Amt"}, {Now0})

\* Texts of numeric comparisons; "." and "1.2.3" are number tokens float() refuses.
MaxComparisons == 3

ComparisonPhrases ==
    {"cost > 100", "cost < 500", "cost > 250", "cost >= 1,000", "weight <= 20.5",
     "rate = 1.2.3", "cost < .", "status = 3 pending"}

ComparisonColumns ==
    {<<"Cost (USD)">>,
     <<"Status", "Weight", "Cost (USD)">>,
     <<"Region">>}

InitNum ==
    InitWith(Texts(ComparisonPhrases, MaxComparisons), ComparisonColumns, {None},
             {None, "Amt"}, {Now0})

\* Texts of temporal phrases, at different times of the clock.
MaxTemporal == 2

TemporalPhrases ==
    {"between 2024-01-05 and 2024-02-10", "between 2024-13-01 and 2024-01-05",
     "this month", "current year", "this week", "last 7 days", "last 30 days"}

\* The first and the last day of every month of a leap year, 2024-03-15 10:00,
\* and the ends of the year before.
Nows ==
    {DateTime(2024, m, 1, 10, 0, 0, 0, TZ) : m \in 1..12}
        \cup {DateTime(2024, m, DaysInMonth(2024, m), 10, 0, 0, 0, TZ) : m \in 1..12}
        \cup {Now0,
              DateTime(2023, 12, 31, 23, 59, 59, 999999, TZ),
              DateTime(2023, 3, 1, 0, 0, 0, 0, TZ)}

InitDate ==
    InitWith(Texts(TemporalPhrases, MaxTemporal), {<<"Ref #", "Ship Date", "Status">>},
             {None, "Created"}, {None}, Nows)

\* Texts of overrides meeting columns the heuristics would pick.
MaxOverridePhrases == 2

OverridePhrases == {"cost > 100", "total", "top 5", "grouped by status", "this month"}

InitOverride ==
    InitWith(Texts(OverridePhrases, MaxOverridePhrases),
             {<<"Ship Date", "Status", "Cost (USD)", "Amt">>, <<"Status", "Region">>},
             {None, "Created", "Region"}, {None, "Amt", "Region"}, {Now0})

\* Column lists in every order.
MaxColumns == 3

ColumnPool == {"Ship Date", "Created On", "Status", "Shipment Type", "Origin", "DATE etd"}

InitField ==
    InitWith({"delivered from Delhi to Pune", "this month"},
             PhraseSeqs(ColumnPool, MaxColumns), {None}, {None}, {Now0})

\* Texts that mix a temporal phrase with location, status and comparison phrases,
\* over schemas where a predicate can resolve to the column of the date.
MaxMixed == 2

MixedPhrases ==
    {"this month", "last 7 days", "delivered", "from Delhi", "ship date > 2024",
     "cost > 100"}

MixedColumns ==
    {<<"Ref #", "Ship Date", "Status", "Published Cost">>,
     <<"Created On", "Shipment Type", "Origin">>,
     <<"Status", "Origin">>}

InitMixed ==
    InitWith(Texts(MixedPhrases, MaxMixed), MixedColumns, {None, "Created On"}, {None},
             {Now0})

Spec == Init /\ [][Next]_vars
SpecNum == InitNum /\ [][Next]_vars
SpecDate == InitDate /\ [][Next]_vars
SpecOverride == InitOverride /\ [][Next]_vars
SpecField == InitField /\ [][Next]_vars
SpecMixed == InitMixed /\ [][Next]_vars

-----------------------------------------------------------------------------
(* Properties                                                              *)

\* The cost field every aggregation of build_query reads, or a false value.
CostField == Or(cost_override, detect_cost_field(columns))

\* The text has a group-by phrase whose grouping column resolves.
GroupResolves ==
    /\ Truthy(detect_group_by(nl))
    /\ Truthy(group_field_of(detect_group_by(nl), columns))

StageNames(pipeline) == [i \in 1..Len(pipeline) |-> pipeline[i].stage]

\* C1: build_query selects one intent by the priority Count > Sum > GroupBy >
\* TopN > Default.  A count phrase gives is_count with no aggregation whatever
\* other signals the text has; otherwise a sum word with a cost field gives
\* "sum", and otherwise a resolvable group-by with a cost field gives
\* "group_cost", also when a top-N signal is present; is_count and an
\* aggregation never come together.
C1_IntentPriority ==
    pc = "done" =>
        /\ detect_count(nl) => q.is_count /\ q.agg = NoAgg
        /\ (~detect_count(nl) /\ detect_sum_request(nl) /\ Truthy(CostField))
              => ~q.is_count /\ q.agg.type = "sum"
        /\ (~detect_count(nl) /\ ~detect_sum_request(nl) /\ GroupResolves
                /\ Truthy(CostField))
              => ~q.is_count /\ q.agg.type = "group_cost"
        /\ ~(q.is_count /\ q.agg # NoAgg)

\* C1 witness: a text with count, sum, group-by and top-N signals and a cost
\* column, answered as a count.
C1_Witness ==
    /\ pc = "done"
    /\ detect_count(nl) /\ detect_sum_request(nl) /\ GroupResolves
    /\ detect_top_n(nl) # <<>>
    /\ Truthy(CostField)
    /\ q.is_count /\ q.agg = NoAgg

\* C2: build_query never raises to the caller.
C2_NeverRaises == pc # "raised"

\* C3 as stated: the first stage of every aggregation is a $match on the
\* filter, a match-all when the filter is empty.
C3_MatchAlwaysFirst ==
    (pc = "done" /\ q.agg # NoAgg) => q.agg.pipeline[1] = Match(q.filter)

\* C3 amended: "sum" and "group_cost" start with a $match on the filter (a
\* match-all when it is empty); "top" starts with a $match on the filter when
\* the filter is not empty and has no $match stage, starting with $addFields,
\* when it is empty; a $match stage, when there is one, is the first stage
\* and so precedes the group, sort and limit stages.
C3_MatchFirstWhenPresent ==
    (pc = "done" /\ q.agg # NoAgg) =>
        LET pl == q.agg.pipeline
        IN /\ q.agg.type \in {"sum", "group_cost", "top"}
           /\ q.agg.type \in {"sum", "group_cost"} => pl[1] = Match(q.filter)
           /\ (q.agg.type = "top" /\ q.filter # EmptyDict) => pl[1] = Match(q.filter)
           /\ (q.agg.type = "top" /\ q.filter = EmptyDict) =>
                 StageNames(pl) = <<"$addFields", "$sort", "$limit", "$project">>
           /\ \A i \in 1..Len(pl) : pl[i].stage = "$match" => i = 1
           /\ \A i, j \in 1..Len(pl) :
                 (pl[i].stage = "$match" /\ pl[j].stage \in {"$group", "$sort", "$limit"})
                     => i < j

\* C3 witness: a top-N aggregation over an empty filter.
C3_Witness ==
    /\ pc = "done"
    /\ q.agg.type = "top"
    /\ q.filter = EmptyDict
    /\ q.agg.pipeline[1].stage = "$addFields"

\* The date field parse_date_specifics keys its range by, or a false value.
DateField == Or(date_override, detect_date_field(columns))

\* The text matches the between pattern and one of its two dates does not parse.
BetweenFails ==
    LET m == BetweenSearch(nl)
    IN m # <<>> /\ ~(DateParses(m[1]) /\ DateParses(m[2]))

\* The text matches the between pattern and both dates parse.
BetweenParses ==
    LET m == BetweenSearch(nl)
    IN m # <<>> /\ DateParses(m[1]) /\ DateParses(m[2])

HasMonthPhrase == Contains(Lower(nl), "this month") \/ Contains(Lower(nl), "current month")
HasYearPhrase == Contains(Lower(nl), "this year") \/ Contains(Lower(nl), "current year")
HasWeekPhrase == Contains(Lower(nl), "this week") \/ Contains(Lower(nl), "current week")
HasLastNDays == LastNDaysSearch(nl) # None

\* C4 as stated: a between range that fails to parse leaves the text with no
\* temporal filter at all, whatever other temporal phrase it holds.
C4_NoFallback ==
    (pc = "temporal" /\ BetweenFails) => filt = EmptyDict

\* C4 amended: when the first between range of the text fails to parse, the
\* explicit range gives no filter and the relative rules are still tried in
\* their order: the result is the range of the first of "this/current month",
\* "this/current year", "this/current week", "last N days" the text holds, and
\* no temporal filter only when it holds none of them.
C4_FallbackToRelative ==
    (pc = "temporal" /\ BetweenFails /\ Truthy(DateField)) =>
        /\ (filt = EmptyDict)
              <=> ~(HasMonthPhrase \/ HasYearPhrase \/ HasWeekPhrase \/ HasLastNDays)
        /\ filt # EmptyDict =>
              /\ DOMAIN filt = {DateField}
              /\ DOMAIN filt[DateField] = {"$gte", "$lt"}
              /\ LET start == filt[DateField]["$gte"].d
                     end == filt[DateField]["$lt"].d
                 IN /\ HasMonthPhrase =>
                          /\ start = [Midnight(now) EXCEPT !.day = 1]
                          /\ end.day = 1 /\ end.month = (now.month % 12) + 1
                    /\ (~HasMonthPhrase /\ HasYearPhrase) =>
                          /\ start = [Midnight(now) EXCEPT !.month = 1, !.day = 1]
                          /\ end = [start EXCEPT !.year = now.year + 1]
                    /\ (~HasMonthPhrase /\ ~HasYearPhrase /\ HasWeekPhrase) =>
                          /\ Weekday(start) = 0
                          /\ ToOrdinal(end.year, end.month, end.day)
                                = ToOrdinal(start.year, start.month, start.day) + 7
                    /\ (~HasMonthPhrase /\ ~HasYearPhrase /\ ~HasWeekPhrase) =>
                          end = now

\* C4 witness: a between range with month 13 next to "this month", answered
\* with the range of the month.
C4_Witness ==
    /\ pc = "temporal"
    /\ BetweenFails
    /\ HasMonthPhrase
    /\ DateField \in DOMAIN filt
    /\ filt[DateField]["$gte"].d = [Midnight(now) EXCEPT !.day = 1]

CompareOps == {"$eq", "$gt", "$lt", "$gte", "$lte"}

\* The comparisons of the text, in text order.
TextComparisons == Comparisons(nl, 1)

\* The comparisons of the text whose field phrase is the word "cost".
CostComparisons ==
    {k \in 1..Len(TextComparisons) : Lower(Strip(TextComparisons[k].ft)) = "cost"}

\* The stages of the aggregation that read the cost field.
CostStages(pipeline) ==
    {i \in 1..Len(pipeline) : pipeline[i].stage \in {"$group", "$addFields"}}

\* A temporal phrase of the text gave a filter.
TemporalMatched ==
    BetweenParses \/ HasMonthPhrase \/ HasYearPhrase \/ HasWeekPhrase \/ HasLastNDays

\* C5: a supplied override always wins.  With a date override and a temporal
\* phrase the temporal bound is keyed by the override; with a cost override
\* every cost comparison ("cost > 100") is a predicate on the override and
\* every aggregation reads the override, whatever the columns are.
C5_OverrideAlwaysWins ==
    pc = "done" =>
        /\ (Truthy(date_override) /\ TemporalMatched) =>
              /\ date_override \in DOMAIN q.filter
              /\ "$gte" \in DOMAIN q.filter[date_override]
        /\ Truthy(cost_override) =>
              /\ \A k \in CostComparisons :
                    /\ cost_override \in DOMAIN q.filter
                    /\ opmap[TextComparisons[k].op] \in DOMAIN q.filter[cost_override]
              /\ \A i \in CostStages(q.agg.pipeline) :
                    q.agg.pipeline[i].input = "$" \o cost_override

\* The highest-priority signal of the text that is not count lacks a field:
\* a sum word or a top-N without a cost field, or a group-by phrase without its
\* grouping field or without a cost field.
IntentLacksField ==
    /\ ~detect_count(nl)
    /\ IF detect_sum_request(nl) THEN ~Truthy(CostField)
       ELSE IF Truthy(detect_group_by(nl)) THEN ~GroupResolves \/ ~Truthy(CostField)
       ELSE detect_top_n(nl) # <<>> /\ ~Truthy(CostField)

\* C6 as stated: an intent whose field does not resolve downgrades to the plain
\* listing, also when a lower-priority signal is present.
C6_DowngradeToDefault ==
    (pc = "done" /\ IntentLacksField) => q = Query(q.filter, FALSE, NoAgg)

\* C6 amended: an intent whose field does not resolve falls through to the
\* lower-priority checks.  Without a cost field every text that is not a count
\* ends in the plain listing (no aggregation, is_count false, limit 100); a
\* group-by phrase whose grouping field does not resolve, in a text with no sum
\* word and with a cost field, gives "top" when the text also holds
\* "top <positive integer>" and the plain listing otherwise.
C6_FallThrough ==
    (pc = "done" /\ ~detect_count(nl)) =>
        /\ q.limit = DefaultLimit /\ ~q.is_count
        /\ ~Truthy(CostField) => q.agg = NoAgg
        /\ (~detect_sum_request(nl) /\ Truthy(detect_group_by(nl)) /\ ~GroupResolves
               /\ Truthy(CostField)) =>
              IF detect_top_n(nl) # <<>> /\ detect_top_n(nl)[1] > 0
              THEN q.agg.type = "top"
              ELSE q.agg = NoAgg

\* C6 witness: a group-by phrase on a column that does not exist, next to
\* "top 5", answered with the top-N aggregation.
C6_Witness ==
    /\ pc = "done"
    /\ ~detect_count(nl) /\ ~detect_sum_request(nl)
    /\ Truthy(detect_group_by(nl)) /\ ~GroupResolves
    /\ detect_top_n(nl) = <<5>>
    /\ q.agg.type = "top"

Last(S) == CHOOSE k \in S : \A j \in S : k >= j

\* The threshold of a comparison: its digits read as a decimal number,
\* thousands separators dropped.
Threshold(m) == ParseFloat(DropChar(m.num, ","))

\* C7: the numeric comparisons of a text accumulate per column.  After the
\* comparison step every column holds, for each operator a comparison on it
\* used, the threshold of the last such comparison; its other entries and the
\* predicates of the columns no comparison goes to are as before the step; a
\* column only comparisons wrote to holds the operators used and nothing else.
\* "cost > 100 cost < 500" on ["Cost (USD)"] gives {$gt: 100, $lt: 500}.
C7_ComparisonsAccumulate ==
    [][(pc = "predicates" /\ pc' = "compared") =>
          LET ms == TextComparisons
              col == [k \in 1..Len(ms) |-> comparison_column(ms[k].ft, columns, cost_override)]
              resolved == {k \in 1..Len(ms) : Truthy(col[k])}
              On(c, o) == {k \in resolved : col[k] = c /\ opmap[ms[k].op] = o}
          IN /\ DOMAIN filt' = DOMAIN filt \cup {col[k] : k \in resolved}
             /\ \A c \in DOMAIN filt' :
                   LET old == IF c \in DOMAIN filt THEN filt[c] ELSE EmptyDict
                       used == {o \in CompareOps : On(c, o) # {}}
                   IN /\ DOMAIN filt'[c] = DOMAIN old \cup used
                      /\ \A o \in used : filt'[c][o] = Threshold(ms[Last(On(c, o))])
                      /\ \A o \in DOMAIN old \ used : filt'[c][o] = old[o]
             /\ (nl_text = "cost > 100 cost < 500" /\ columns = <<"Cost (USD)">>
                    /\ cost_override = None) =>
                   filt' = ("Cost (USD)" :>
                               (("$gt" :> NumV(100, 0)) @@ ("$lt" :> NumV(500, 0))))
      ]_vars

\* C7 witness: three comparisons on one column, two of them with ">": the
\* column holds the last ">" threshold and the "<" threshold.
C7_Witness ==
    /\ pc = "compared"
    /\ nl_text = "cost > 100 cost < 500 cost > 250"
    /\ columns = <<"Status", "Weight", "Cost (USD)">>
    /\ filt = ("Cost (USD)" :> (("$gt" :> NumV(250, 0)) @@ ("$lt" :> NumV(500, 0))))

\* The text is answered by its "this/current month" phrase.
MonthRule == ~BetweenParses /\ HasMonthPhrase

\* The text is answered by its "last N days" phrase.
LastNDaysRule ==
    /\ ~BetweenParses /\ ~HasMonthPhrase /\ ~HasYearPhrase /\ ~HasWeekPhrase
    /\ HasLastNDays

OrdinalOf(dt) == ToOrdinal(dt.year, dt.month, dt.day)

IsMidnight(dt) == dt.hour = 0 /\ dt.minute = 0 /\ dt.second = 0 /\ dt.microsecond = 0

\* C8: the relative ranges are half open.  "this/current month" gives $gte =
\* the first day of now's month at 00:00 and $lt = the first day of the month
\* after at 00:00 (January of the next year in December); "last N days" gives
\* $gte = midnight of the day N days before now and $lt = now.  At 2024-03-15
\* 10:00 these are [2024-03-01 00:00, 2024-04-01 00:00) and, for N = 7,
\* [2024-03-08 00:00, 2024-03-15 10:00).
C8_RelativeRanges ==
    (pc = "temporal" /\ Truthy(DateField)) =>
        /\ MonthRule =>
              /\ DOMAIN filt = {DateField}
              /\ DOMAIN filt[DateField] = {"$gte", "$lt"}
              /\ LET start == filt[DateField]["$gte"].d
                     end == filt[DateField]["$lt"].d
                 IN /\ start = DateTime(now.year, now.month, 1, 0, 0, 0, 0, TZ)
                    /\ IsMidnight(end) /\ end.day = 1 /\ end.tzinfo = TZ
                    /\ OrdinalOf(end)
                          = ToOrdinal(now.year, now.month, DaysInMonth(now.year, now.month)) + 1
                    /\ now.month = 12 => end.year = now.year + 1 /\ end.month = 1
        /\ LastNDaysRule =>
              /\ DOMAIN filt = {DateField}
              /\ DOMAIN filt[DateField] = {"$gte", "$lt"}
              /\ LET start == filt[DateField]["$gte"].d
                     end == filt[DateField]["$lt"].d
                 IN /\ IsMidnight(start) /\ start.tzinfo = TZ
                    /\ OrdinalOf(start) = OrdinalOf(now) - ParseInt(LastNDaysSearch(nl))
                    /\ end = now
        /\ (now = Now0 /\ nl_text = "this month") =>
              filt[DateField] = ("$gte" :> DtV(DateTime(2024, 3, 1, 0, 0, 0, 0, TZ)))
                                   @@ ("$lt" :> DtV(DateTime(2024, 4, 1, 0, 0, 0, 0, TZ)))
        /\ (now = Now0 /\ nl_text = "last 7 days") =>
              filt[DateField] = ("$gte" :> DtV(DateTime(2024, 3, 8, 0, 0, 0, 0, TZ)))
                                   @@ ("$lt" :> DtV(DateTime(2024, 3, 15, 10, 0, 0, 0, TZ)))

\* C8 witness: "last 7 days" at 2024-03-15 10:00, answered with the range from
\* 2024-03-08 00:00 to now.
C8_Witness ==
    /\ pc = "temporal"
    /\ now = Now0
    /\ nl_text = "last 7 days"
    /\ filt[DateField]["$gte"].d = DateTime(2024, 3, 8, 0, 0, 0, 0, TZ)
    /\ filt[DateField]["$lt"].d = now

\* The $limit stages of a pipeline.
LimitStages(pipeline) == {i \in 1..Len(pipeline) : pipeline[i].stage = "$limit"}

\* The text is a top-N request: "top <integer>" with a cost field and no count
\* phrase, no sum word and no resolvable group-by.
TopRequest ==
    /\ detect_top_n(nl) # <<>>
    /\ ~detect_count(nl) /\ ~detect_sum_request(nl) /\ ~GroupResolves
    /\ Truthy(CostField)

\* C9 as stated: every integer "top <integer>" captures, 0 included, gives a
\* "top" aggregation whose $limit is that integer; limit stays 100.
C9_TopForEveryInteger ==
    (pc = "done" /\ TopRequest) =>
        /\ q.agg.type = "top"
        /\ LimitStages(q.agg.pipeline) # {}
        /\ \A i \in LimitStages(q.agg.pipeline) : q.agg.pipeline[i].n = detect_top_n(nl)[1]
        /\ q.limit = DefaultLimit

\* C9 amended: every positive integer "top <integer>" captures gives a "top"
\* aggregation with one $limit stage, of that integer; "top 0" gives the plain
\* listing with no aggregation; the limit field is 100 in both cases.
C9_TopForPositiveInteger ==
    (pc = "done" /\ TopRequest) =>
        /\ q.limit = DefaultLimit
        /\ detect_top_n(nl)[1] > 0 =>
              /\ q.agg.type = "top"
              /\ Cardinality(LimitStages(q.agg.pipeline)) = 1
              /\ \A i \in LimitStages(q.agg.pipeline) :
                    q.agg.pipeline[i].n = detect_top_n(nl)[1]
        /\ detect_top_n(nl)[1] = 0 => q.agg = NoAgg /\ ~q.is_count

\* C9 witness: "top 5" with a cost column, answered with $limit 5.
C9_Witness ==
    /\ pc = "done"
    /\ TopRequest
    /\ detect_top_n(nl) = <<5>>
    /\ \E i \in LimitStages(q.agg.pipeline) : q.agg.pipeline[i].n = 5

\* The keyword lists find_field is asked about: those of the program and lists
\* that name the same columns in another order.
KeywordLists ==
    {DATE_FIELD_HINTS, STATUS_FIELD_HINTS,
     <<"origin", "from", "location">>, <<"destination", "to", "to company", "to id">>,
     <<"date", "ship">>, <<"etd", "created", "ship date">>, <<"TYPE", "status">>,
     <<"weight">>, <<>>}

\* Keyword kw is a case-insensitive substring of column c.
Holds(c, kw) == Contains(Lower(c), Lower(kw))

TemporalRange == parse_date_specifics(nl, columns, date_override, now).value

\* C11: the filter never carries a non-temporal predicate on the resolved date
\* field.  The location, status and numeric-comparison rules never write to the
\* date field, so whenever a temporal phrase matches, the date field's entry in
\* the final filter is exactly the time range of parse_date_specifics: only
\* $gte with $lt or $lte, with the datetime bounds.
C11_DateEntryIsTimeRange ==
    (pc = "done" /\ TemporalRange # EmptyDict) =>
        /\ DateField \in DOMAIN q.filter
        /\ q.filter[DateField] = TemporalRange[DateField]
        /\ DOMAIN q.filter[DateField] \in {{"$gte", "$lt"}, {"$gte", "$lte"}}
        /\ \A op \in DOMAIN q.filter[DateField] : q.filter[DateField][op].k = "datetime"

\* Column c holds one of the keywords kws.
HoldsAny(c, kws) == \E kw \in kws : Holds(c, kw)

\* The columns that hold "date" while every other column holds none of kws.
LoneDateColumns(kws) ==
    {i \in 1..Len(columns) :
        /\ Holds(columns[i], "date")
        /\ \A j \in 1..Len(columns) : j # i => ~HoldsAny(columns[j], kws)}

\* Once parse_date_specifics has run: the date field of the heuristic holds one
\* of kws when it exists, holds "ship date" when any column does, and keys the
\* temporal filter; a lone column of "date" beside columns without any of kws
\* is that key.
DateHintRule(kws) ==
    LET found == detect_date_field(columns)
    IN pc = "temporal" =>
          /\ Truthy(found) =>
                /\ \E i \in 1..Len(columns) : columns[i] = found
                /\ HoldsAny(found, kws)
          /\ (\E i \in 1..Len(columns) : Holds(columns[i], "ship date")) =>
                /\ Truthy(found)
                /\ Holds(found, "ship date")
          /\ TemporalMatched =>
                /\ Truthy(found) => DOMAIN filt = {found}
                /\ \A i \in LoneDateColumns(kws) : DOMAIN filt = {columns[i]}

\* C12 as stated: heuristic date-field detection only ever returns a column
\* whose lowercase name contains one of "ship date", "date", "created",
\* "delivered" or "etd"; a column containing "ship date" is preferred over
\* columns matching only the generic keywords; and with one column containing
\* "date" beside columns containing none of these keywords, the temporal
\* filter is keyed by the former.
C12_FiveHints == DateHintRule({"ship date", "date", "created", "delivered", "etd"})

\* C12 amended: the hints are "ship date", "ship", "created", "date",
\* "delivered" and "etd".  Detection only ever returns a column whose lowercase
\* name contains one of these six; a column containing "ship date" is preferred
\* over every column without it; and with one column containing "date" beside
\* columns containing none of the six, the temporal filter is keyed by the
\* former.
C12_SixHints ==
    DateHintRule({"ship date", "ship", "created", "date", "delivered", "etd"})

\* C12 witness: "DATE etd" stands first and holds the generic hints, and the
\* range of "this month" is keyed by "Ship Date" behind it.
C12_Witness ==
    /\ pc = "temporal"
    /\ nl_text = "this month"
    /\ Len(columns) >= 2
    /\ columns[1] = "DATE etd"
    /\ columns[2] = "Ship Date"
    /\ detect_date_field(columns) = "Ship Date"
    /\ DOMAIN filt = {"Ship Date"}

\* C13: for every text containing "by status", "group by status" or "grouped
\* by status", whatever words follow the phrase, with no count or sum signal
\* and with both a status field and a cost field resolvable, build_query
\* returns agg type "group_cost" grouped on the resolved status field, with the
\* stages $match, $group (count, total_cost, avg_cost) and $sort by total_cost
\* descending.
C13_StatusPhraseGroups ==
    (/\ pc = "done"
     /\ Contains(Lower(nl), "by status")
     /\ ~detect_count(nl)
     /\ ~detect_sum_request(nl)
     /\ Truthy(detect_status_field(columns))
     /\ Truthy(CostField)) =>
        /\ q.agg.type = "group_cost"
        /\ StageNames(q.agg.pipeline) = <<"$match", "$group", "$sort">>
        /\ q.agg.pipeline[1].filter = q.filter
        /\ q.agg.pipeline[2].id = "$" \o detect_status_field(columns)
        /\ q.agg.pipeline[2].input = "$" \o CostField
        /\ q.agg.pipeline[2].fields = <<"count", "total_cost", "avg_cost">>
        /\ q.agg.pipeline[3].fields = <<"total_cost">>
        /\ q.agg.pipeline[3].n = -1
====
